---------------------------- MODULE Spec2Model ----------------------------
(***************************************************************************)
(* A model of TPI_Programmer.ino: the Arduino sketch that programs an      *)
(* ATtiny4/5/9/10/20/40 over TPI.  The model follows the sketch from the   *)
(* end of setup() through device identification and one serial command     *)
(* ('P' = program from an Intel-HEX stream, 'E' = erase) up to finish().   *)
(*                                                                         *)
(* Three parties take steps:                                               *)
(*   - the sketch (loop, checkID, start_tpi, eraseChip, writeProgram,      *)
(*     finish), one action per blocking point of the code;                 *)
(*   - the target's NVM controller (pointer register, NVMCMD, busy flag,   *)
(*     flash cells that a word write can only clear and an erase sets);    *)
(*   - the serial sender, which delivers the HEX text field by field and   *)
(*     may stop delivering at any character.                               *)
(* Characters are ASCII codes, bytes are 0..255, addresses 0..65535.       *)
(***************************************************************************)
EXTENDS Integers, Sequences, FiniteSets, TLC

(***************************************************************************)
(* Bounds of the exploration (not program constants).                      *)
(***************************************************************************)
\* longest payload of a record of the hand-written ("small") streams
MaxLen == 2
\* most records of a small stream
MaxRecs == 2
\* number of flash cells, from the start of program memory, that may be worn
\* out and fail to take a write
WeakSpan == 8
\* payload bytes per record of a full-size ("bulk") stream
BulkLen == 16

(***************************************************************************)
(* Program constants (#define lines of the sketch).                        *)
(***************************************************************************)
NVM_NOP == 0
NVM_CHIP_ERASE == 16
NVM_SECTION_ERASE == 20
NVM_WORD_WRITE == 29
Tiny4_5 == 10
Tiny9 == 1
Tiny10 == 1
Tiny20 == 2
Tiny40 == 4
Tiny102 == 1
Tiny104 == 1
TimeOut == 1
HexError == 2
TooLarge == 3
Checksum == 4
\* 0x4000, the base of program memory added to every record offset
ProgBase == 16384
\* 0x4001, the pointer value eraseChip sets before the dummy stores
EraseAddr == 16385
\* sizeof data[]
DataSize == 16
\* ASCII ':' and the line feed a terminal sends between lines
Colon == 58
LineFeed == 10
\* ASCII command letters 'P' and 'E' (the lower-case letters are 32 higher)
CmdP == 80
CmdE == 69
\* 0x3FC0, where the signature bytes are
SigBase == 16320
\* the key instruction
SKEY == 224
\* 'S' and 'C' (also accepted in lower case)
CmdS == 83
CmdC == 67
\* the configuration byte
CfgAddr == 16192
\* the letters setConfig knows
SelC == 99
SelW == 119
SelR == 114
SelX == 120
\* most 'S' and 'C' commands in one run
MaxCmds == 3
\* most idle bytes before an answer
MaxIdle == 2

(***************************************************************************)
(* Pure helpers.                                                           *)
(***************************************************************************)
RECURSIVE BitAnd(_, _)
BitAnd(a, b) ==
  IF a = 0 \/ b = 0 THEN 0
  ELSE (a % 2) * (b % 2) + 2 * BitAnd(a \div 2, b \div 2)

\* CURRENT_DIGIT after the in-place conversion of asciiHexToUShort: '0'..'9'
\* and 'A'..'F' become 0..15, any other character keeps its code.
HexDigit(ch) ==
  IF ch >= 48 /\ ch <= 57 THEN ch - 48
  ELSE IF ch >= 65 /\ ch <= 70 THEN ch - 65 + 10
  ELSE ch

\* Number of characters the do/while of asciiHexToUShort converts: the first
\* one always, then every following one up to the first NUL.
RECURSIVE DigitsUsed(_, _)
DigitsUsed(str, n) ==
  IF n >= Len(str) \/ str[n + 1] = 0 THEN n ELSE DigitsUsed(str, n + 1)

RECURSIVE HexAcc(_, _)
HexAcc(str, n) ==
  IF n = 0 THEN 0 ELSE (HexAcc(str, n - 1) * 16 + HexDigit(str[n])) % 65536

\* unsigned short asciiHexToUShort(char *str)
asciiHexToUShort(str) == HexAcc(str, DigitsUsed(str, 1))

\* the string as asciiHexToUShort leaves it (digits converted in place)
Converted(str) ==
  [j \in 1..Len(str) |-> IF j <= DigitsUsed(str, 1) THEN HexDigit(str[j]) ELSE str[j]]

\* What the sender's HEX writer emits for one byte: two upper-case digits.
HexChar(n) == IF n < 10 THEN 48 + n ELSE 65 + n - 10
ToHex2(v) == <<HexChar(v \div 16), HexChar(v % 16)>>

\* type -> words per program step (line 522) and flash capacity (line 590)
WordsOf(t) == IF t # Tiny4_5 THEN t ELSE 1
Capacity(t) == IF t # Tiny4_5 THEN t * 1024 ELSE 512

\* Target flash: a cell not in the domain is erased (0xFF).
Blank == [a \in {} |-> 255]
Cell(m, a) == IF a \in DOMAIN m THEN m[a] ELSE 255

\* The stores of one NVM operation: vals[0..n-1] stored with SSTp at p, p+1,
\* ... under the command latched in NVMCMD.  A chip erase sets every cell; a
\* word write can only clear bits of a cell; the cell with index weak (if
\* any) fails to take the write.
StoreGroup(m, cmd, p, vals, n, weak) ==
  IF cmd = NVM_CHIP_ERASE THEN Blank
  ELSE IF cmd # NVM_WORD_WRITE THEN m
  ELSE LET at(j) == (p + j) % 65536
           nv(j) == BitAnd(Cell(m, at(j)), vals[j])
           hit   == {j \in 0..(n - 1) : j # weak /\ nv(j) # Cell(m, at(j))}
       IN  [x \in {at(j) : j \in hit} |-> nv(CHOOSE j \in hit : at(j) = x)] @@ m

(***************************************************************************)
(* State.                                                                  *)
(***************************************************************************)
(* The TPI frame codec: tpi_send_byte, tpi_receive_byte, send_skey.        *)
(***************************************************************************)
BitOr(a, b) == a + b - BitAnd(a, b)
BitXor(a, b) == a + b - 2 * BitAnd(a, b)

\* bit n of v
Bit(v, n) == (v \div (2 ^ n)) % 2

\* a parity computation that forgets the last fold
ParityNoLastFold(d) ==
  LET p1 == BitXor(d, d \div 16)
  IN  BitXor(p1, p1 \div 4)

\* lines 877-880: par after the three folds (uint8_t; bit 0 is the parity)
ParityOf(d) ==
  LET p1 == BitXor(d, d \div 16)
      p2 == BitXor(p1, p1 \div 4)
  IN  BitXor(p2, p2 \div 2)

\* lines 884-886: the two bytes tpi_send_byte hands to SPI.transfer
tpi_send_byte(d) ==
  << BitOr(3, d * 8) % 256,
     BitOr(BitOr(240, ParityOf(d) * 8), d \div 32) % 256 >>

\* an alignment loop that drops the bit shifted out of b1
NoCarry(x) == 0

\* line 911: the bit of b1 that moves into b2
Carry(x) == IF BitAnd(128, x) # 0 THEN 1 ELSE 0

\* lines 909-916: the alignment loop; the value of b2 when b1 is 0x7f
RECURSIVE Align(_, _)
Align(x1, x2) ==
  IF x1 = 127 THEN x2
  ELSE Align(BitOr((x1 * 2) % 256, 1), BitOr((x2 * 2) % 256, Carry(x1)))

\* lines 896-898: how many transfers the do-while makes
RECURSIVE IdleRun(_)
IdleRun(line) ==
  IF line = <<>> \/ Head(line) # 255 THEN 1 ELSE 1 + IdleRun(Tail(line))

\* lines 896-905: how many transfers tpi_receive_byte makes in all
Taken(line) ==
  LET n == IdleRun(line)
  IN  IF BitAnd(15, line[n]) = 15 THEN n + 2 ELSE n + 1

\* tpi_receive_byte on the bytes SPI.transfer returns
tpi_receive_byte(line) ==
  LET n == IdleRun(line)
  IN  Align(line[n], line[n + 1])

\* The target's answer on the line: n idle bytes, then p idle bits, the start
\* bit, d with its lowest bit first, the parity bit, two stop bits, idle bits.
Wire(d, p, n) ==
  LET par  == (Bit(d, 0) + Bit(d, 1) + Bit(d, 2) + Bit(d, 3)
               + Bit(d, 4) + Bit(d, 5) + Bit(d, 6) + Bit(d, 7)) % 2
      bits == (2 ^ p - 1) + d * 2 ^ (p + 1) + par * 2 ^ (p + 9)
              + (2 ^ 24 - 2 ^ (p + 10))
  IN  [j \in 1..n |-> 255]
      \o << bits % 256, (bits \div 256) % 256, (bits \div 65536) % 256 >>

\* the frames of a sequence of bytes, one after the other
RECURSIVE Frames(_)
Frames(bytes) ==
  IF bytes = <<>> THEN <<>> ELSE tpi_send_byte(Head(bytes)) \o Frames(Tail(bytes))

\* lines 924-927: the bytes the while(nvm_key) loop sends; key is the 64-bit
\* value as its 8 bytes, least significant first
RECURSIVE KeyLoop(_)
KeyLoop(key) ==
  IF \A j \in 1..8 : key[j] = 0 THEN <<>>
  ELSE <<key[1]>> \o KeyLoop(Tail(key) \o <<0>>)

\* send_skey: SKEY, then the loop
send_skey(key) == Frames(<<SKEY>> \o KeyLoop(key))


(***************************************************************************)
VARIABLES
  \* ---- the sketch ----
  pc,           \* position in loop()/writeProgram()
  comnd,        \* loop(): the command character (0: none read yet)
  idChecked,    \* global
  id,           \* checkID locals id1, id2, id3 (<<>> outside checkID)
  type,         \* global: device profile, 0 until checkID recognises a chip
  adrs,         \* global: local mirror of the pointer register
  data,         \* global: uint8_t data[16]
  progSize,     \* global
  currentByte,  \* writeProgram local
  checkSum,     \* writeProgram local (uint8_t)
  someth,       \* writeProgram local (uint8_t)
  linelength,   \* writeProgram local (uint8_t)
  fileEnd,      \* writeProgram local
  temp,         \* writeProgram local: char temp[2]
  addr,         \* writeProgram local: char addr[4]
  nch,          \* characters of the current two-digit field already read
  k,            \* data loop index (line 577)
  i,            \* type-2 loop index (line 568)
  c,            \* verify loop index (line 628)
  b,            \* global: last byte read back
  ret,          \* writeProgram's return value: "none", "true", "false"
  errData,      \* argument of ERROR_data (0: not called)
  \* ---- the target ----
  ptr,          \* pointer register
  nvmcmd,       \* NVMCMD
  busy,         \* NVMCSR bit 7
  mem,          \* flash cells that are not 0xFF
  nvmen,        \* NVM-enabled status bit
  \* ---- the serial line ----
  rx,           \* characters delivered and not yet read
  rxTag,        \* what the field in rx is (sender's bookkeeping)
  stalled,      \* the sender has stopped for good
  expired,      \* millis() - startTime > timeout
  \* ---- the sender ----
  plan,         \* "small", "bulk" or "far"
  txField,      \* next field to send
  txLen, txOff, txType,  \* header of the record being sent
  txLeft,       \* payload bytes of it still to send
  txSum,        \* sum of the bytes of it, as the HEX file has them
  txBad,        \* the record was corrupted on the way
  txRecs,       \* records sent completely
  txBytes,      \* payload bytes of data records sent completely
  txNext,       \* HEX address after the last data record
  \* ---- history ----
  src,          \* src[j]: where the byte in data[j] came from
  lastOp, prevOp,  \* the last two operations on the TPI link
  groupAddr,    \* address of the group last programmed
  erases,       \* chip erases since the last start_tpi()
  nvmOps,       \* NVM commands and stores of eraseChip and writeProgram so far
  \* ---- setConfig ----
  val,          \* setConfig's argument: TRUE to set a fuse, FALSE to clear one
  sel,          \* setConfig local comnd: the letter read at line 735 (0: none)
  cmds,         \* 'S' and 'C' commands read so far
  \* ---- the frame codec on its own ----
  call,         \* the function called and its argument
  mosi,         \* bytes handed to SPI.transfer by the call
  miso,         \* bytes SPI.transfer returned to the call
  b1,           \* global (line 182)
  b2            \* global (line 182): what tpi_receive_byte returns

loopVars == <<comnd, idChecked, type, id>>
hexVars  == <<progSize, currentByte, checkSum, someth, linelength, fileEnd,
              temp, addr, nch, k, i>>
bufVars  == <<data, src>>
verVars  == <<c, b>>
outVars  == <<ret, errData>>
tgtVars  == <<ptr, nvmcmd, busy, mem, nvmen>>
rxVars   == <<rx, rxTag, stalled, expired>>
txVars   == <<plan, txField, txLen, txOff, txType, txLeft, txSum, txBad,
              txRecs, txBytes, txNext>>
opVars   == <<lastOp, prevOp, groupAddr, erases, nvmOps>>
cfgVars  == <<val, sel, cmds>>
tpiVars  == <<call, mosi, miso, b1, b2>>
sketchVars == <<pc, adrs, loopVars, hexVars, bufVars, verVars, outVars, tgtVars,
                rxVars, txVars, opVars, cfgVars>>
vars == <<sketchVars, tpiVars>>

\* the flash of a chip that was programmed before
OldImage == [a \in {ProgBase, ProgBase + 1} |-> 0]

NoTag == [kind |-> "none", at |-> 0]
PadTag == [kind |-> "pad", at |-> 0]

\* The state setup() leaves: start_tpi() has enabled the NVM, setPointer(0).
Init ==
  /\ pc = "loop"
  /\ comnd = 0
  /\ idChecked = FALSE
  /\ id = <<>>
  /\ type = 0
  /\ adrs = 0
  /\ data = [j \in 0..(DataSize - 1) |-> 0]
  /\ progSize = 0
  /\ currentByte = 0
  /\ checkSum = 0
  /\ someth = 0
  /\ linelength = 0
  /\ fileEnd = FALSE
  /\ temp = <<48, 48>>
  /\ addr = <<48, 48, 48, 48>>
  /\ nch = 0
  /\ k = 0
  /\ i = 0
  /\ c = 0
  /\ b = 0
  /\ ret = "none"
  /\ errData = 0
  /\ ptr = 0
  /\ nvmcmd = NVM_NOP
  /\ busy = FALSE
  /\ mem \in {Blank, OldImage}
  /\ nvmen = TRUE
  /\ rx = <<>>
  /\ rxTag = NoTag
  /\ stalled = FALSE
  /\ expired = FALSE
  /\ plan = "small"
  /\ txField = "cmd"
  /\ txLen = 0
  /\ txOff = 0
  /\ txType = 0
  /\ txLeft = 0
  /\ txSum = 0
  /\ txBad = FALSE
  /\ txRecs = 0
  /\ txBytes = 0
  /\ txNext = 0
  /\ src = [j \in 0..(DataSize - 1) |-> NoTag]
  /\ lastOp = "start_tpi"
  /\ prevOp = "none"
  /\ groupAddr = 0
  /\ erases = 0
  /\ nvmOps = 0
  /\ val = FALSE
  /\ sel = 0
  /\ cmds = 0
  /\ call = <<"none", 0>>
  /\ mosi = <<>>
  /\ miso = <<>>
  /\ b1 = 0
  /\ b2 = 0

\* one more operation on the link
Op(o) == lastOp' = o /\ prevOp' = lastOp

(***************************************************************************)
(* The serial sender.  It delivers one field at a time, when the sketch    *)
(* has read everything delivered so far and is waiting for a character.    *)
(***************************************************************************)
\* positions of the sketch that wait for a character of the HEX stream
ReadPoints == {"recWait", "mark2", "len", "ah", "al", "type", "skip", "data", "cks"}
\* of these, the waits whose loop tests millis()-startTime > timeout
TimedPoints == {"recWait", "data", "cks"}

CanFeed == ~stalled /\ rx = <<>> /\ pc \in ReadPoints

\* record types the small streams use: data, end of file, extended segment
\* address, extended linear address
RecTypes == {0, 1, 2, 4}

\* payload byte the HEX file holds for HEX address a (never 0x00, never 0xFF)
Pattern(a) == (a % 251) + 1

\* record offsets outside the program memory: the one that the 16-bit sum
\* with 0x4000 takes to the configuration byte, and the first past the end
FarOffsets == {CfgAddr + 65536 - ProgBase, Capacity(type)}

\* the records a sender may start next
Menu ==
  IF plan = "small"
    THEN {[n |-> n, off |-> o, t |-> t] :
            n \in 0..MaxLen, o \in {0, txNext}, t \in RecTypes}
         \ {r \in [n : 0..MaxLen, off : {txNext}, t : RecTypes \ {0}] : r.off # 0}
    ELSE IF plan = "far"
      THEN IF txRecs = 0
             THEN {[n |-> 2 * WordsOf(type), off |-> o, t |-> 0] : o \in FarOffsets}
             ELSE {[n |-> 0, off |-> 0, t |-> 1]}
    ELSE IF txBytes < Capacity(type)
      THEN {[n |-> IF Capacity(type) - txBytes < BulkLen
                     THEN Capacity(type) - txBytes ELSE BulkLen,
             off |-> txNext, t |-> 0]}
      ELSE {[n |-> 0, off |-> 0, t |-> 1], [n |-> 1, off |-> txNext, t |-> 0]}

\* the user types a command; 'P' is followed by a HEX file, 'S' and 'C' by a
\* letter; a run is one 'P' or 'E', or up to MaxCmds 'S' and 'C'
FeedCmd ==
  /\ pc = "prompt" /\ rx = <<>> /\ txField = "cmd"
  /\ \E cmd \in (IF cmds = 0 THEN {CmdP, CmdE} ELSE {}) \cup {CmdS, CmdC} :
       /\ rx' = <<cmd>>
       /\ \E pl \in (IF cmd = CmdP THEN {"small", "bulk", "far"} ELSE {"small"}) : plan' = pl
       /\ txField' = CASE cmd = CmdP -> "mark"
                       [] cmd = CmdE -> "end"
                       [] OTHER -> "sel"
  /\ UNCHANGED <<rxTag, stalled, expired>>
  /\ UNCHANGED <<txLen, txOff, txType, txLeft, txSum, txBad, txRecs, txBytes, txNext>>
  /\ UNCHANGED <<pc, adrs, loopVars, hexVars, bufVars, verVars, outVars, tgtVars, opVars>>
  /\ UNCHANGED cfgVars
  /\ UNCHANGED tpiVars

\* ':' of the next record, after 0, 1 or 2 line-end characters
FeedMark ==
  /\ CanFeed /\ txField = "mark"
  /\ plan = "small" => txRecs < MaxRecs
  /\ \E junk \in (IF plan = "small" THEN {<<>>, <<LineFeed>>, <<LineFeed, LineFeed>>}
                                     ELSE {<<LineFeed>>}) :
       /\ rx' = junk \o <<Colon>>
       /\ rxTag' = [kind |-> "mark", at |-> Len(junk)]
  /\ txField' = "len"
  /\ UNCHANGED <<stalled, expired>>
  /\ UNCHANGED <<plan, txLen, txOff, txType, txLeft, txSum, txBad, txRecs, txBytes, txNext>>
  /\ UNCHANGED <<pc, adrs, loopVars, hexVars, bufVars, verVars, outVars, tgtVars, opVars>>
  /\ UNCHANGED cfgVars
  /\ UNCHANGED tpiVars

FeedLen ==
  /\ CanFeed /\ txField = "len"
  /\ \E r \in Menu :
       /\ txLen' = r.n /\ txOff' = r.off /\ txType' = r.t
       /\ rx' = ToHex2(r.n)
       /\ txSum' = r.n
  /\ rxTag' = [kind |-> "len", at |-> 0]
  /\ txBad' = FALSE
  /\ txField' = "ah"
  /\ UNCHANGED <<stalled, expired>>
  /\ UNCHANGED <<plan, txLeft, txRecs, txBytes, txNext>>
  /\ UNCHANGED <<pc, adrs, loopVars, hexVars, bufVars, verVars, outVars, tgtVars, opVars>>
  /\ UNCHANGED cfgVars
  /\ UNCHANGED tpiVars

FeedAddrHi ==
  /\ CanFeed /\ txField = "ah"
  /\ rx' = ToHex2(txOff \div 256)
  /\ txSum' = (txSum + (txOff \div 256)) % 256
  /\ txField' = "al"
  /\ rxTag' = [kind |-> "ah", at |-> 0]
  /\ UNCHANGED <<stalled, expired>>
  /\ UNCHANGED <<plan, txLen, txOff, txType, txLeft, txBad, txRecs, txBytes, txNext>>
  /\ UNCHANGED <<pc, adrs, loopVars, hexVars, bufVars, verVars, outVars, tgtVars, opVars>>
  /\ UNCHANGED cfgVars
  /\ UNCHANGED tpiVars

FeedAddrLo ==
  /\ CanFeed /\ txField = "al"
  /\ rx' = ToHex2(txOff % 256)
  /\ txSum' = (txSum + (txOff % 256)) % 256
  /\ txField' = "type"
  /\ rxTag' = [kind |-> "al", at |-> 0]
  /\ UNCHANGED <<stalled, expired>>
  /\ UNCHANGED <<plan, txLen, txOff, txType, txLeft, txBad, txRecs, txBytes, txNext>>
  /\ UNCHANGED <<pc, adrs, loopVars, hexVars, bufVars, verVars, outVars, tgtVars, opVars>>
  /\ UNCHANGED cfgVars
  /\ UNCHANGED tpiVars

FeedType ==
  /\ CanFeed /\ txField = "type"
  /\ rx' = ToHex2(txType)
  /\ txSum' = (txSum + txType) % 256
  /\ txLeft' = txLen
  /\ txField' = IF txLen = 0 THEN "cks" ELSE "payload"
  /\ rxTag' = [kind |-> "type", at |-> 0]
  /\ UNCHANGED <<stalled, expired>>
  /\ UNCHANGED <<plan, txLen, txOff, txType, txBad, txRecs, txBytes, txNext>>
  /\ UNCHANGED <<pc, adrs, loopVars, hexVars, bufVars, verVars, outVars, tgtVars, opVars>>
  /\ UNCHANGED cfgVars
  /\ UNCHANGED tpiVars

\* the next payload byte, as the file has it or (small streams) with its top
\* bit flipped on the way
FeedPayload ==
  /\ CanFeed /\ txField = "payload"
  /\ LET at == txOff + (txLen - txLeft)
         v  == Pattern(at)
     IN  /\ \E flip \in (IF plan = "small" /\ ~txBad THEN BOOLEAN ELSE {FALSE}) :
              /\ rx' = ToHex2(IF flip THEN (v + 128) % 256 ELSE v)
              /\ txBad' = (txBad \/ flip)
         /\ txSum' = (txSum + v) % 256
         /\ rxTag' = [kind |-> CASE txType = 0 -> "data"
                                 [] txType = 1 -> "eof"
                                 [] txType = 2 -> "seg"
                                 [] OTHER -> "other",
                      at |-> at]
  /\ txLeft' = txLeft - 1
  /\ txField' = IF txLeft = 1 THEN "cks" ELSE "payload"
  /\ UNCHANGED <<stalled, expired>>
  /\ UNCHANGED <<plan, txLen, txOff, txType, txRecs, txBytes, txNext>>
  /\ UNCHANGED <<pc, adrs, loopVars, hexVars, bufVars, verVars, outVars, tgtVars, opVars>>
  /\ UNCHANGED cfgVars
  /\ UNCHANGED tpiVars

\* the checksum of the record as the file has it, or (small streams) off by one
FeedCks ==
  /\ CanFeed /\ txField = "cks"
  /\ LET good == (256 - txSum) % 256
     IN  \E flip \in (IF plan = "small" /\ ~txBad THEN BOOLEAN ELSE {FALSE}) :
              /\ rx' = ToHex2(IF flip THEN (good + 1) % 256 ELSE good)
              /\ txBad' = (txBad \/ flip)
  /\ rxTag' = [kind |-> "cks", at |-> 0]
  /\ txField' = IF txType = 1 THEN "end" ELSE "mark"
  /\ txRecs' = txRecs + 1
  /\ txBytes' = IF txType = 0 THEN txBytes + txLen ELSE txBytes
  /\ txNext' = IF txType = 0 THEN txOff + txLen ELSE txNext
  /\ UNCHANGED <<stalled, expired>>
  /\ UNCHANGED <<plan, txLen, txOff, txType, txLeft, txSum>>
  /\ UNCHANGED <<pc, adrs, loopVars, hexVars, bufVars, verVars, outVars, tgtVars, opVars>>
  /\ UNCHANGED cfgVars
  /\ UNCHANGED tpiVars

\* the sender goes on with the file while the sketch throws input away
FeedLate ==
  /\ pc = "drain" /\ rx = <<>> /\ ~stalled
  /\ comnd # 0
  /\ rx' = <<LineFeed>>
  /\ UNCHANGED <<rxTag, stalled, expired>>
  /\ UNCHANGED <<pc, adrs, loopVars, hexVars, bufVars, verVars, outVars, tgtVars, txVars, opVars>>
  /\ UNCHANGED cfgVars
  /\ UNCHANGED tpiVars

\* the user answers setConfig's question
FeedSel ==
  /\ pc = "selWait" /\ rx = <<>> /\ txField = "sel"
  /\ \E ch \in {SelC, SelW, SelR, SelX, CmdC, LineFeed} : rx' = <<ch>>
  /\ txField' = "cmd"
  /\ UNCHANGED <<rxTag, stalled, expired>>
  /\ UNCHANGED <<plan, txLen, txOff, txType, txLeft, txSum, txBad, txRecs, txBytes, txNext>>
  /\ UNCHANGED <<pc, adrs, loopVars, hexVars, bufVars, verVars, outVars, tgtVars, opVars>>
  /\ UNCHANGED cfgVars
  /\ UNCHANGED tpiVars

\* The stream stops for good: before the next field, or with the last
\* character of the field just delivered never arriving.
Stall ==
  /\ ~stalled /\ pc \in ReadPoints /\ nch = 0
  /\ plan = "small"
  /\ \/ rx = <<>> /\ rx' = rx
     \/ Len(rx) >= 2 /\ rx' = SubSeq(rx, 1, Len(rx) - 1)
  /\ stalled' = TRUE
  /\ UNCHANGED <<rxTag, expired>>
  /\ UNCHANGED <<pc, adrs, loopVars, hexVars, bufVars, verVars, outVars, tgtVars, txVars, opVars>>
  /\ UNCHANGED cfgVars
  /\ UNCHANGED tpiVars

\* time passes while the sketch waits for a character that will not come, or
\* while it throws characters away: the deadline counted from startTime passes
Tick ==
  /\ \/ stalled /\ rx = <<>> /\ pc \in ReadPoints
     \/ pc = "drain"
  /\ ~expired
  /\ expired' = TRUE
  /\ UNCHANGED <<rx, rxTag, stalled>>
  /\ UNCHANGED <<pc, adrs, loopVars, hexVars, bufVars, verVars, outVars, tgtVars, txVars, opVars>>
  /\ UNCHANGED cfgVars
  /\ UNCHANGED tpiVars

\* the target finishes an erase or a write
NvmComplete ==
  /\ busy
  /\ busy' = FALSE
  /\ UNCHANGED <<ptr, nvmcmd, mem, nvmen>>
  /\ UNCHANGED <<pc, adrs, loopVars, hexVars, bufVars, verVars, outVars, rxVars, txVars, opVars>>
  /\ UNCHANGED cfgVars
  /\ UNCHANGED tpiVars


(***************************************************************************)
(* The sketch: loop(), checkID(), start_tpi(), eraseChip(), finish().      *)
(***************************************************************************)
\* signature rows of targets: the ones checkID knows and others, some of them
\* one byte away from a known one
Signatures ==
  { <<30, 143, 10>>, <<30, 143, 9>>, <<30, 144, 8>>, <<30, 144, 3>>,
    <<30, 145, 15>>, <<30, 146, 14>>, <<30, 144, 12>>, <<30, 144, 11>>,
    <<30, 153, 153>>, <<255, 255, 255>>, <<0, 0, 0>>,
    <<30, 143, 8>>, <<30, 144, 10>>, <<31, 144, 3>>, <<30, 145, 14>>,
    <<30, 146, 15>>, <<30, 144, 13>> }

\* a checkID that takes the ATtiny40 for a 2-word device
ProfileOfOldTiny40(sig, old) ==
  IF sig = <<30, 146, 14>> THEN Tiny20 ELSE
  CASE sig = <<30, 143, 10>> -> Tiny4_5
    [] sig = <<30, 143, 9>>  -> Tiny4_5
    [] sig = <<30, 144, 8>>  -> Tiny9
    [] sig = <<30, 144, 3>>  -> Tiny10
    [] sig = <<30, 145, 15>> -> Tiny20
    [] sig = <<30, 144, 12>> -> Tiny102
    [] sig = <<30, 144, 11>> -> Tiny104
    [] OTHER -> old

\* the if/else chain of checkID: the new value of type
ProfileOf(sig, old) ==
  CASE sig = <<30, 143, 10>> -> Tiny4_5
    [] sig = <<30, 143, 9>>  -> Tiny4_5
    [] sig = <<30, 144, 8>>  -> Tiny9
    [] sig = <<30, 144, 3>>  -> Tiny10
    [] sig = <<30, 145, 15>> -> Tiny20
    [] sig = <<30, 146, 14>> -> Tiny40
    [] sig = <<30, 144, 12>> -> Tiny102
    [] sig = <<30, 144, 11>> -> Tiny104
    [] OTHER -> old

IsP == comnd \in {CmdP, CmdP + 32}
IsE == comnd \in {CmdE, CmdE + 32}
IsS == comnd \in {CmdS, CmdS + 32}
IsC == comnd \in {CmdC, CmdC + 32}

\* checkID(), lines 831-838: setPointer(0x3FC0) and three SLDp loads; the
\* target answers with the signature it has
ReadSignature ==
  /\ pc = "loop" /\ ~idChecked
  /\ \E sig \in Signatures : id' = sig
  /\ adrs' = SigBase
  /\ ptr' = SigBase + 3
  /\ pc' = "checkID"
  /\ UNCHANGED <<comnd, idChecked, type, nvmcmd, busy, mem, nvmen>>
  /\ UNCHANGED <<hexVars, bufVars, verVars, outVars, rxVars, txVars, opVars>>
  /\ UNCHANGED cfgVars
  /\ UNCHANGED tpiVars

\* checkID(), lines 839-866, and its return to loop(): idChecked = true
CheckID ==
  /\ pc = "checkID"
  /\ type' = ProfileOf(id, type)
  /\ id' = <<>>
  /\ idChecked' = TRUE
  /\ pc' = "finish"
  /\ Op("checkID")
  /\ UNCHANGED <<comnd, adrs, tgtVars, groupAddr, erases, nvmOps>>
  /\ UNCHANGED <<hexVars, bufVars, verVars, outVars, rxVars, txVars>>
  /\ UNCHANGED cfgVars
  /\ UNCHANGED tpiVars

\* loop(): wait for a character and dispatch on it
ReadCommand ==
  /\ pc = "prompt" /\ rx # <<>>
  /\ comnd' = Head(rx)
  /\ rx' = Tail(rx)
  /\ pc' = IF Head(rx) \in {CmdP, CmdP + 32, CmdE, CmdE + 32,
                            CmdS, CmdS + 32, CmdC, CmdC + 32}
             THEN "start_tpi" ELSE "halt"
  /\ cmds' = IF Head(rx) \in {CmdS, CmdS + 32, CmdC, CmdC + 32} THEN cmds + 1 ELSE cmds
  /\ UNCHANGED <<val, sel>>
  /\ UNCHANGED <<idChecked, type, id, adrs, rxTag, stalled, expired>>
  /\ UNCHANGED <<hexVars, bufVars, verVars, outVars, tgtVars, txVars, opVars>>
  /\ UNCHANGED tpiVars

\* start_tpi() up to send_skey: reset, guard time, the 64-bit key
StartTpi ==
  /\ pc = "start_tpi"
  /\ nvmen' = TRUE
  /\ pc' = "nvmWait"
  /\ Op("key")
  /\ erases' = 0
  /\ UNCHANGED <<adrs, ptr, nvmcmd, busy, mem, groupAddr, nvmOps>>
  /\ UNCHANGED <<loopVars, hexVars, bufVars, verVars, outVars, rxVars, txVars>>
  /\ UNCHANGED cfgVars
  /\ UNCHANGED tpiVars

\* a writeProgram that leaves out the erase and goes straight to the records
SkipErase == "recWait"

\* where writeProgram goes after its declarations (line 520)
FirstStep == "eraseChip"

\* start_tpi(): the poll of the NVM-enabled bit ends; the command's case runs on
NvmEnabled ==
  /\ pc = "nvmWait" /\ nvmen
  /\ pc' = CASE IsP -> "writeProgram"
               [] IsE -> "eraseChip"
               [] OTHER -> "setConfig"
  /\ val' = IF IsS THEN TRUE ELSE IF IsC THEN FALSE ELSE val
  /\ Op("start_tpi")
  /\ UNCHANGED <<sel, cmds>>
  /\ UNCHANGED <<adrs, groupAddr, erases, nvmOps>>
  /\ UNCHANGED <<loopVars, hexVars, bufVars, verVars, outVars, tgtVars, rxVars, txVars>>
  /\ UNCHANGED tpiVars

\* writeProgram(): the declarations of lines 510-519
BeginWriteProgram ==
  /\ pc = "writeProgram"
  /\ temp' = <<48, 48>>
  /\ addr' = <<48, 48, 48, 48>>
  /\ checkSum' = 0
  /\ someth' = 0
  /\ currentByte' = 0
  /\ progSize' = 0
  /\ linelength' = 0
  /\ fileEnd' = FALSE
  /\ pc' = FirstStep
  /\ UNCHANGED <<adrs, nch, k, i, rxVars>>
  /\ UNCHANGED <<loopVars, bufVars, verVars, outVars, tgtVars, txVars, opVars>>
  /\ UNCHANGED cfgVars
  /\ UNCHANGED tpiVars

\* eraseChip() up to the poll: setPointer(0x4001), the command, 4 dummy stores
EraseChip ==
  /\ pc = "eraseChip"
  /\ adrs' = EraseAddr
  /\ nvmcmd' = NVM_CHIP_ERASE
  /\ mem' = StoreGroup(mem, NVM_CHIP_ERASE, EraseAddr, <<170, 170, 170, 170>>, 4, 4)
  /\ ptr' = EraseAddr + 4
  /\ busy' = TRUE
  /\ pc' = "pollErase"
  /\ Op("erase")
  /\ erases' = erases + 1
  /\ nvmOps' = nvmOps + 5
  /\ UNCHANGED <<nvmen, groupAddr>>
  /\ UNCHANGED <<loopVars, hexVars, bufVars, verVars, outVars, rxVars, txVars>>
  /\ UNCHANGED cfgVars
  /\ UNCHANGED tpiVars

\* eraseChip(): the busy bit reads clear
EraseDone ==
  /\ pc = "pollErase" /\ ~busy
  /\ pc' = IF IsP THEN "recWait" ELSE "finish"
  /\ expired' = FALSE
  /\ Op("erase_done")
  /\ UNCHANGED <<adrs, rx, rxTag, stalled, groupAddr, erases, nvmOps>>
  /\ UNCHANGED <<loopVars, hexVars, bufVars, verVars, outVars, tgtVars, txVars>>
  /\ UNCHANGED cfgVars
  /\ UNCHANGED tpiVars

\* loop(), case 'P', line 343: writeProgram() returned false; startTime = millis()
BeginDrain ==
  /\ pc = "failed"
  /\ pc' = "drain"
  /\ expired' = FALSE
  /\ UNCHANGED <<adrs, rx, rxTag, stalled>>
  /\ UNCHANGED <<loopVars, hexVars, bufVars, verVars, outVars, tgtVars, txVars, opVars>>
  /\ UNCHANGED cfgVars
  /\ UNCHANGED tpiVars

\* a discarding loop that also wipes what the load had written
DrainRollback ==
  /\ pc = "drain" /\ ~expired /\ rx # <<>>
  /\ rx' = Tail(rx)
  /\ nvmcmd' = NVM_CHIP_ERASE
  /\ mem' = Blank
  /\ nvmOps' = nvmOps + 5
  /\ UNCHANGED <<pc, adrs, rxTag, stalled, expired, ptr, busy, nvmen>>
  /\ UNCHANGED <<lastOp, prevOp, groupAddr, erases>>
  /\ UNCHANGED <<loopVars, hexVars, bufVars, verVars, outVars, txVars>>
  /\ UNCHANGED cfgVars
  /\ UNCHANGED tpiVars

\* lines 344-345: within the 8000 ms, Serial.read() throws a character away
Drain ==
  /\ pc = "drain" /\ ~expired /\ rx # <<>>
  /\ rx' = Tail(rx)
  /\ UNCHANGED <<pc, adrs, rxTag, stalled, expired>>
  /\ UNCHANGED <<loopVars, hexVars, bufVars, verVars, outVars, tgtVars, txVars, opVars>>
  /\ UNCHANGED cfgVars
  /\ UNCHANGED tpiVars

\* a loop that goes on to finish() only once the input has stopped
EndDrainWhenQuiet ==
  /\ pc = "drain" /\ expired /\ rx = <<>>
  /\ pc' = "finish"
  /\ UNCHANGED <<adrs, rxVars>>
  /\ UNCHANGED <<loopVars, hexVars, bufVars, verVars, outVars, tgtVars, txVars, opVars>>
  /\ UNCHANGED cfgVars
  /\ UNCHANGED tpiVars

\* line 344: millis()-startTime < 8000 is false; on to finish()
EndDrain ==
  /\ pc = "drain" /\ expired
  /\ pc' = "finish"
  /\ UNCHANGED <<adrs, rxVars>>
  /\ UNCHANGED <<loopVars, hexVars, bufVars, verVars, outVars, tgtVars, txVars, opVars>>
  /\ UNCHANGED cfgVars
  /\ UNCHANGED tpiVars

\* finish(): leave NVM programming mode and release RESET
Finish ==
  /\ pc = "finish"
  /\ nvmen' = FALSE
  /\ pc' = IF comnd = 0 \/ ((IsS \/ IsC) /\ cmds < MaxCmds) THEN "prompt" ELSE "halt"
  /\ Op("finish")
  /\ UNCHANGED <<adrs, ptr, nvmcmd, busy, mem, groupAddr, erases, nvmOps>>
  /\ UNCHANGED <<loopVars, hexVars, bufVars, verVars, outVars, rxVars, txVars>>
  /\ UNCHANGED cfgVars
  /\ UNCHANGED tpiVars


(***************************************************************************)
(* The sketch: setConfig() and dumpConfig().                               *)
(***************************************************************************)
\* the bit of the configuration byte a letter selects (0: none)
FuseBit(ch) ==
  CASE ch = SelC -> 4
    [] ch = SelW -> 2
    [] ch = SelR -> 1
    [] OTHER -> 0

\* a clear path that goes to the word write without erasing the section
NeverErase(v, ch) == FALSE

\* line 737: the section is erased first when a fuse is to be cleared
NeedsErase(v, ch) == (~v) /\ FuseBit(ch) # 0

\* lines 753-782: the byte stored at 0x3F40
NewConfig(v, ch, old) ==
  IF v THEN BitAnd(old, 255 - FuseBit(ch)) ELSE BitOr(old, FuseBit(ch))

\* lines 717-720: dumpConfig() reads the byte with SLDp; setPointer(0x3F40);
\* SLD reads it again into b
SetConfig ==
  /\ pc = "setConfig"
  /\ adrs' = CfgAddr
  /\ ptr' = CfgAddr
  /\ b' = Cell(mem, CfgAddr)
  /\ sel' = 0
  /\ pc' = "selWait"
  /\ Op("dumpConfig")
  /\ UNCHANGED <<val, cmds, c, nvmcmd, busy, mem, nvmen, groupAddr, erases, nvmOps>>
  /\ UNCHANGED <<loopVars, hexVars, bufVars, outVars, rxVars, txVars>>
  /\ UNCHANGED tpiVars

\* lines 732-736: a character has arrived; setPointer(0x3F40)
ReadSelection ==
  /\ pc = "selWait" /\ rx # <<>>
  /\ sel' = Head(rx)
  /\ rx' = Tail(rx)
  /\ adrs' = CfgAddr
  /\ ptr' = CfgAddr
  /\ pc' = IF NeedsErase(val, Head(rx)) THEN "sectionErase" ELSE "wordWrite"
  /\ UNCHANGED <<val, cmds, rxTag, stalled, expired, nvmcmd, busy, mem, nvmen>>
  /\ UNCHANGED <<loopVars, hexVars, bufVars, verVars, outVars, txVars, opVars>>
  /\ UNCHANGED tpiVars

\* lines 739-743: the section-erase command and two dummy stores; the erase
\* sets every bit of the configuration word
SectionErase ==
  /\ pc = "sectionErase"
  /\ nvmcmd' = NVM_SECTION_ERASE
  /\ mem' = [a \in {CfgAddr, CfgAddr + 1} |-> 255] @@ mem
  /\ ptr' = CfgAddr + 2
  /\ busy' = TRUE
  /\ pc' = "pollSection"
  /\ Op("section_erase")
  /\ UNCHANGED <<adrs, nvmen, groupAddr, erases, nvmOps>>
  /\ UNCHANGED <<loopVars, hexVars, bufVars, verVars, outVars, rxVars, txVars>>
  /\ UNCHANGED cfgVars
  /\ UNCHANGED tpiVars

\* lines 744-745: the busy bit reads set; the statement after the while is its
\* body, so NVM_NOP is written to NVMCMD and the status is read again
PollSectionBusy ==
  /\ pc = "pollSection" /\ busy
  /\ nvmcmd' = NVM_NOP
  /\ Op("nop")
  /\ UNCHANGED <<pc, adrs, ptr, busy, mem, nvmen, groupAddr, erases, nvmOps>>
  /\ UNCHANGED <<loopVars, hexVars, bufVars, verVars, outVars, rxVars, txVars>>
  /\ UNCHANGED cfgVars
  /\ UNCHANGED tpiVars

\* lines 744-748: the busy bit reads clear; two idle transfers; setPointer(0x3F40)
PollSectionDone ==
  /\ pc = "pollSection" /\ ~busy
  /\ adrs' = CfgAddr
  /\ ptr' = CfgAddr
  /\ pc' = "wordWrite"
  /\ Op("section_erase_done")
  /\ UNCHANGED <<nvmcmd, busy, mem, nvmen, groupAddr, erases, nvmOps>>
  /\ UNCHANGED <<loopVars, hexVars, bufVars, verVars, outVars, rxVars, txVars>>
  /\ UNCHANGED cfgVars
  /\ UNCHANGED tpiVars

\* lines 751-788: the word-write command; for c, w and r the new byte and 0xFF
\* are stored at 0x3F40 and 0x3F41, where a write can only clear bits
WordWrite ==
  /\ pc = "wordWrite"
  /\ nvmcmd' = NVM_WORD_WRITE
  /\ IF FuseBit(sel) # 0
       THEN /\ mem' = StoreGroup(mem, NVM_WORD_WRITE, ptr,
                                 [j \in 0..1 |-> IF j = 0 THEN NewConfig(val, sel, b) ELSE 255],
                                 2, 2)
            /\ ptr' = ptr + 2
            /\ busy' = TRUE
       ELSE UNCHANGED <<mem, ptr, busy>>
  /\ pc' = "pollConfig"
  /\ Op("config_write")
  /\ UNCHANGED <<adrs, nvmen, groupAddr, erases, nvmOps>>
  /\ UNCHANGED <<loopVars, hexVars, bufVars, verVars, outVars, rxVars, txVars>>
  /\ UNCHANGED cfgVars
  /\ UNCHANGED tpiVars

\* lines 789-813: the busy bit reads clear; NVM_NOP; two idle transfers; for
\* c, w and r dumpConfig() reads the byte back
ConfigDone ==
  /\ pc = "pollConfig" /\ ~busy
  /\ nvmcmd' = NVM_NOP
  /\ IF FuseBit(sel) # 0
       THEN /\ adrs' = CfgAddr
            /\ ptr' = CfgAddr + 1
            /\ b' = Cell(mem, CfgAddr)
       ELSE UNCHANGED <<adrs, ptr, b>>
  /\ pc' = "finish"
  /\ Op("config_done")
  /\ UNCHANGED <<c, busy, mem, nvmen, groupAddr, erases, nvmOps>>
  /\ UNCHANGED <<loopVars, hexVars, bufVars, outVars, rxVars, txVars>>
  /\ UNCHANGED cfgVars
  /\ UNCHANGED tpiVars


(***************************************************************************)
(* The sketch: writeProgram(), the loop over the records.                  *)
(***************************************************************************)
words == WordsOf(type)

\* return false after ERROR_data(code)
Abort(code) == errData' = code /\ ret' = "false" /\ pc' = "failed"

\* startTime = millis() on the way into a timed wait (lines 526 and 649)
Restart(p) == expired' = IF p \in {"recWait", "cks"} THEN FALSE ELSE expired

\* the field in temp once its second digit is read, and its value
Field == [temp EXCEPT ![2] = Head(rx)]
FieldVal == asciiHexToUShort(Field)

\* a timed wait sees no character and the timeout has passed
TimedOut ==
  /\ pc \in TimedPoints /\ nch = 0
  /\ rx = <<>> /\ expired
  /\ Abort(TimeOut)
  /\ UNCHANGED <<adrs, rxVars>>
  /\ UNCHANGED <<loopVars, hexVars, bufVars, verVars, tgtVars, txVars, opVars>>
  /\ UNCHANGED cfgVars
  /\ UNCHANGED tpiVars

\* lines 527-535: the first character of a record
ReadMark1 ==
  /\ pc = "recWait" /\ rx # <<>>
  /\ rx' = Tail(rx)
  /\ pc' = IF Head(rx) = Colon THEN "len" ELSE "mark2"
  /\ UNCHANGED <<adrs, rxTag, stalled, expired>>
  /\ UNCHANGED <<loopVars, hexVars, bufVars, verVars, outVars, tgtVars, txVars, opVars>>
  /\ UNCHANGED cfgVars
  /\ UNCHANGED tpiVars

\* a record start that skips any number of characters that are not ':'
ReadMark2Lenient ==
  /\ pc = "mark2" /\ rx # <<>>
  /\ rx' = Tail(rx)
  /\ pc' = IF Head(rx) = Colon THEN "len" ELSE "mark2"
  /\ UNCHANGED <<adrs, rxTag, stalled, expired>>
  /\ UNCHANGED <<loopVars, hexVars, bufVars, verVars, outVars, tgtVars, txVars, opVars>>
  /\ UNCHANGED cfgVars
  /\ UNCHANGED tpiVars

\* lines 536-540: the character after one that was not ':'
ReadMark2 ==
  /\ pc = "mark2" /\ rx # <<>>
  /\ rx' = Tail(rx)
  /\ IF Head(rx) = Colon
       THEN pc' = "len" /\ UNCHANGED outVars
       ELSE Abort(HexError)
  /\ UNCHANGED <<adrs, rxTag, stalled, expired>>
  /\ UNCHANGED <<loopVars, hexVars, bufVars, verVars, tgtVars, txVars, opVars>>
  /\ UNCHANGED cfgVars
  /\ UNCHANGED tpiVars

\* temp[0] = Sread() of any two-digit field (addr[0], addr[2] with it)
ReadFirstDigit ==
  /\ pc \in {"len", "ah", "al", "type", "skip", "data", "cks"}
  /\ nch = 0 /\ rx # <<>>
  /\ temp' = [temp EXCEPT ![1] = Head(rx)]
  /\ addr' = CASE pc = "ah" -> [addr EXCEPT ![1] = Head(rx)]
               [] pc = "al" -> [addr EXCEPT ![3] = Head(rx)]
               [] OTHER -> addr
  /\ nch' = 1
  /\ rx' = Tail(rx)
  /\ UNCHANGED <<pc, adrs, rxTag, stalled, expired>>
  /\ UNCHANGED <<progSize, currentByte, checkSum, someth, linelength, fileEnd, k, i>>
  /\ UNCHANGED <<loopVars, bufVars, verVars, outVars, tgtVars, txVars, opVars>>
  /\ UNCHANGED cfgVars
  /\ UNCHANGED tpiVars

\* lines 544-545
ReadLen ==
  /\ pc = "len" /\ nch = 1 /\ rx # <<>>
  /\ linelength' = FieldVal % 256
  /\ checkSum' = FieldVal % 256
  /\ temp' = Converted(Field)
  /\ nch' = 0
  /\ rx' = Tail(rx)
  /\ pc' = "ah"
  /\ UNCHANGED <<adrs, rxTag, stalled, expired>>
  /\ UNCHANGED <<progSize, currentByte, someth, fileEnd, addr, k, i>>
  /\ UNCHANGED <<loopVars, bufVars, verVars, outVars, tgtVars, txVars, opVars>>
  /\ UNCHANGED cfgVars
  /\ UNCHANGED tpiVars

\* lines 549-550
ReadAddrHi ==
  /\ pc = "ah" /\ nch = 1 /\ rx # <<>>
  /\ addr' = [addr EXCEPT ![2] = Head(rx)]
  /\ checkSum' = (checkSum + FieldVal) % 256
  /\ temp' = Converted(Field)
  /\ nch' = 0
  /\ rx' = Tail(rx)
  /\ pc' = "al"
  /\ UNCHANGED <<adrs, rxTag, stalled, expired>>
  /\ UNCHANGED <<progSize, currentByte, someth, linelength, fileEnd, k, i>>
  /\ UNCHANGED <<loopVars, bufVars, verVars, outVars, tgtVars, txVars, opVars>>
  /\ UNCHANGED cfgVars
  /\ UNCHANGED tpiVars

\* lines 552-556: the record's address, and the reset of the group index
ReadAddrLo ==
  /\ pc = "al" /\ nch = 1 /\ rx # <<>>
  /\ LET addr4 == [addr EXCEPT ![4] = Head(rx)]
         a     == (asciiHexToUShort(addr4) + ProgBase) % 65536
     IN  /\ addr' = Converted(addr4)
         /\ adrs' = a
         /\ currentByte' = IF linelength # 0 /\ a = ProgBase THEN 0 ELSE currentByte
  /\ checkSum' = (checkSum + FieldVal) % 256
  /\ temp' = Converted(Field)
  /\ nch' = 0
  /\ rx' = Tail(rx)
  /\ pc' = "type"
  /\ UNCHANGED <<rxTag, stalled, expired>>
  /\ UNCHANGED <<progSize, someth, linelength, fileEnd, k, i>>
  /\ UNCHANGED <<loopVars, bufVars, verVars, outVars, tgtVars, txVars, opVars>>
  /\ UNCHANGED cfgVars
  /\ UNCHANGED tpiVars

\* a type-2 loop that stops one field early
SkipLess(n, len) == n < len

\* line 568: the condition of the type-2 loop
SkipMore(n, len) == n <= len

\* line 567: the record types whose fields are read and dropped
Skipped(t) == t = 2

\* lines 560-577: the record type; which loop reads the rest
ReadType ==
  /\ pc = "type" /\ nch = 1 /\ rx # <<>>
  /\ LET t == FieldVal % 256
         p == IF Skipped(t)
                THEN (IF SkipMore(0, linelength) THEN "skip" ELSE "recWait")
                ELSE (IF 0 < linelength THEN "data" ELSE "cks")
     IN  /\ someth' = t
         /\ checkSum' = (checkSum + t) % 256
         /\ fileEnd' = (fileEnd \/ t = 1)
         /\ i' = IF Skipped(t) THEN 0 ELSE i
         /\ k' = IF Skipped(t) THEN k ELSE 0
         /\ pc' = p
         /\ Restart(p)
  /\ temp' = Converted(Field)
  /\ nch' = 0
  /\ rx' = Tail(rx)
  /\ UNCHANGED <<adrs, rxTag, stalled>>
  /\ UNCHANGED <<progSize, currentByte, linelength, addr>>
  /\ UNCHANGED <<loopVars, bufVars, verVars, outVars, tgtVars, txVars, opVars>>
  /\ UNCHANGED cfgVars
  /\ UNCHANGED tpiVars

\* lines 568-572: one field of a type-2 record
SkipField ==
  /\ pc = "skip" /\ nch = 1 /\ rx # <<>>
  /\ checkSum' = (checkSum + FieldVal) % 256
  /\ i' = i + 1
  /\ LET p == IF SkipMore(i + 1, linelength) THEN "skip" ELSE "recWait"
     IN  pc' = p /\ Restart(p)
  /\ temp' = Converted(Field)
  /\ nch' = 0
  /\ rx' = Tail(rx)
  /\ UNCHANGED <<adrs, rxTag, stalled>>
  /\ UNCHANGED <<progSize, currentByte, someth, linelength, fileEnd, addr, k>>
  /\ UNCHANGED <<loopVars, bufVars, verVars, outVars, tgtVars, txVars, opVars>>
  /\ UNCHANGED cfgVars
  /\ UNCHANGED tpiVars

\* a size test that already refuses the byte that fills the flash
AtCapacity(size, t) == size >= Capacity(t)

\* line 590
ProgramTooLarge(size, t) == size > Capacity(t)

\* lines 596-600: the group index after the padding loop
Padded(cb, end) == IF end /\ cb < 2 * words THEN 2 * words ELSE cb

\* a test that never finds the group complete
GroupNeverFull(cb) == FALSE

\* line 604: is the word/Dword/Qword here?
GroupFull(cb) == cb = 2 * words

\* where the data loop goes after byte number n of the record (line 577)
AfterByte(n) == IF n < linelength THEN "data" ELSE "cks"

\* lines 585-604: one payload byte into the group buffer
ReadData ==
  /\ pc = "data" /\ nch = 1 /\ rx # <<>>
  /\ LET v  == FieldVal % 256
         cb == currentByte + 1
         pb == Padded(cb, fileEnd)
     IN  /\ checkSum' = (checkSum + v) % 256
         /\ progSize' = progSize + 1
         /\ IF ProgramTooLarge(progSize + 1, type)
              THEN /\ Abort(TooLarge)
                   /\ data' = [data EXCEPT ![currentByte] = v]
                   /\ src' = [src EXCEPT ![currentByte] = rxTag]
                   /\ currentByte' = cb
                   /\ UNCHANGED <<k, expired>>
              ELSE /\ data' = [j \in 0..(DataSize - 1) |->
                                 IF j = currentByte THEN v
                                 ELSE IF j >= cb /\ j < pb THEN 0 ELSE data[j]]
                   /\ src' = [j \in 0..(DataSize - 1) |->
                                 IF j = currentByte THEN rxTag
                                 ELSE IF j >= cb /\ j < pb THEN PadTag ELSE src[j]]
                   /\ currentByte' = pb
                   /\ IF GroupFull(pb)
                        THEN pc' = "program" /\ UNCHANGED <<k, expired>>
                        ELSE k' = k + 1 /\ pc' = AfterByte(k + 1) /\ Restart(AfterByte(k + 1))
                   /\ UNCHANGED outVars
  /\ temp' = Converted(Field)
  /\ nch' = 0
  /\ rx' = Tail(rx)
  /\ UNCHANGED <<adrs, rxTag, stalled>>
  /\ UNCHANGED <<someth, linelength, fileEnd, addr, i>>
  /\ UNCHANGED <<loopVars, verVars, tgtVars, txVars, opVars>>
  /\ UNCHANGED cfgVars
  /\ UNCHANGED tpiVars

\* cells that may be worn out
Worn(a) == a >= ProgBase /\ a < ProgBase + WeakSpan

\* lines 606-618: setPointer(adrs), the word-write command, the stores of the
\* group; one cell of the group may fail to take the write
ProgramGroup ==
  /\ pc = "program"
  /\ currentByte' = 0
  /\ nvmcmd' = NVM_WORD_WRITE
  /\ \E weak \in {j \in 0..(2 * words - 1) : Worn((adrs + j) % 65536)} \cup {2 * words} :
       mem' = StoreGroup(mem, NVM_WORD_WRITE, adrs, data, 2 * words, weak)
  /\ ptr' = (adrs + 2 * words) % 65536
  /\ busy' = TRUE
  /\ groupAddr' = adrs
  /\ nvmOps' = nvmOps + 1 + 2 * words
  /\ Op("program")
  /\ pc' = "pollWrite"
  /\ UNCHANGED <<adrs, nvmen, erases>>
  /\ UNCHANGED <<progSize, checkSum, someth, linelength, fileEnd, temp, addr, nch, k, i>>
  /\ UNCHANGED <<loopVars, bufVars, verVars, outVars, rxVars, txVars>>
  /\ UNCHANGED cfgVars
  /\ UNCHANGED tpiVars

\* lines 619-627: the busy bit reads clear; NOP; setPointer(adrs) for the verify
WriteDone ==
  /\ pc = "pollWrite" /\ ~busy
  /\ nvmcmd' = NVM_NOP
  /\ ptr' = adrs
  /\ c' = 0
  /\ nvmOps' = nvmOps + 1
  /\ Op("program_done")
  /\ pc' = "verify"
  /\ UNCHANGED <<adrs, b, busy, mem, nvmen, groupAddr, erases>>
  /\ UNCHANGED <<loopVars, hexVars, bufVars, outVars, rxVars, txVars>>
  /\ UNCHANGED cfgVars
  /\ UNCHANGED tpiVars

\* a comparison that accepts whatever is read back
NeverMismatch(rb, expected) == FALSE

\* line 632
Mismatch(rb, expected) == rb # expected

\* lines 629-645: read one byte back and compare; after the last, advance
VerifyByte ==
  /\ pc = "verify"
  /\ LET rb == Cell(mem, ptr)
     IN  /\ b' = rb
         /\ ptr' = (ptr + 1) % 65536
         /\ IF Mismatch(rb, data[c])
              THEN /\ ret' = "false" /\ pc' = "failed"
                   /\ Op("verify_fail")
                   /\ UNCHANGED <<c, adrs, k, errData, expired>>
              ELSE /\ c' = c + 1
                   /\ UNCHANGED outVars
                   /\ IF c + 1 < 2 * words
                        THEN UNCHANGED <<pc, adrs, k, expired, lastOp, prevOp>>
                        ELSE /\ adrs' = (adrs + 2 * words) % 65536
                             /\ k' = k + 1
                             /\ pc' = AfterByte(k + 1)
                             /\ Restart(AfterByte(k + 1))
                             /\ Op("verify")
  /\ UNCHANGED <<nvmcmd, busy, mem, nvmen, groupAddr, erases, nvmOps, rx, rxTag, stalled>>
  /\ UNCHANGED <<progSize, currentByte, checkSum, someth, linelength, fileEnd, temp, addr, nch, i>>
  /\ UNCHANGED <<loopVars, bufVars, txVars>>
  /\ UNCHANGED cfgVars
  /\ UNCHANGED tpiVars

\* lines 657-676: the checksum field; the end of the loop body
ReadChecksum ==
  /\ pc = "cks" /\ nch = 1 /\ rx # <<>>
  /\ LET calc == (256 - checkSum) % 256
         recv == FieldVal % 256
     IN  /\ checkSum' = calc
         /\ someth' = recv
         /\ IF calc # recv
              THEN Abort(Checksum) /\ UNCHANGED expired
              ELSE IF fileEnd
                THEN ret' = "true" /\ pc' = "finish" /\ UNCHANGED <<errData, expired>>
                ELSE pc' = "recWait" /\ Restart("recWait") /\ UNCHANGED outVars
  /\ temp' = Converted(Field)
  /\ nch' = 0
  /\ rx' = Tail(rx)
  /\ UNCHANGED <<adrs, rxTag, stalled>>
  /\ UNCHANGED <<progSize, currentByte, linelength, fileEnd, addr, k, i>>
  /\ UNCHANGED <<loopVars, bufVars, verVars, tgtVars, txVars, opVars>>
  /\ UNCHANGED cfgVars
  /\ UNCHANGED tpiVars

(***************************************************************************)
(* The specification.                                                      *)
(***************************************************************************)
Sender ==
  \/ FeedCmd \/ FeedMark \/ FeedLen \/ FeedAddrHi \/ FeedAddrLo \/ FeedType
  \/ FeedPayload \/ FeedCks \/ FeedLate \/ FeedSel \/ Stall

Sketch ==
  \/ ReadSignature \/ CheckID \/ ReadCommand \/ StartTpi \/ NvmEnabled \/ BeginWriteProgram
  \/ EraseChip \/ EraseDone \/ BeginDrain \/ Drain \/ EndDrain \/ Finish
  \/ TimedOut \/ ReadMark1 \/ ReadMark2 \/ ReadFirstDigit \/ ReadLen
  \/ ReadAddrHi \/ ReadAddrLo \/ ReadType \/ SkipField \/ ReadData
  \/ ProgramGroup \/ WriteDone \/ VerifyByte \/ ReadChecksum
  \/ SetConfig \/ ReadSelection \/ SectionErase \/ PollSectionBusy \/ PollSectionDone
  \/ WordWrite \/ ConfigDone

Next == Sender \/ Sketch \/ Tick \/ NvmComplete

Spec == Init /\ [][Next]_vars

\* The sketch runs whenever it can, the clock advances and the target ends
\* what it started; nothing makes the sender go on.
FairSpec == Spec /\ WF_vars(Sketch) /\ WF_vars(Tick) /\ WF_vars(NvmComplete)


(***************************************************************************)
(* The frame codec on its own: one call, on any argument.                  *)
(***************************************************************************)
\* NVM_PROGRAM_ENABLE, least significant byte first
ProgramEnableKey == <<255, 136, 216, 205, 69, 171, 137, 18>>

\* 64-bit keys, as bytes: the one the sketch uses and keys with zero bytes
Keys == [1..8 -> {0, 18, 255}] \cup {ProgramEnableKey}

CallSendByte ==
  /\ call[1] = "none"
  /\ \E d \in 0..255 :
       /\ call' = <<"tpi_send_byte", d>>
       /\ mosi' = tpi_send_byte(d)
  /\ UNCHANGED <<miso, b1, b2>>
  /\ UNCHANGED sketchVars

\* the target answers d after n idle bytes and p idle bits
CallReceiveByte ==
  /\ call[1] = "none"
  /\ \E d \in 0..255, p \in 0..7, n \in 0..MaxIdle :
       LET line == Wire(d, p, n)
       IN  /\ call' = <<"tpi_receive_byte", <<d, p, n>>>>
           /\ miso' = SubSeq(line, 1, Taken(line))
           /\ mosi' = [j \in 1..Taken(line) |-> 255]
           /\ b1' = 127
           /\ b2' = tpi_receive_byte(line)
  /\ UNCHANGED sketchVars

\* tpi_receive_byte on the very bytes tpi_send_byte(d) puts on the line
CallLoopback ==
  /\ call[1] = "none"
  /\ \E d \in 0..255 :
       LET line == tpi_send_byte(d) \o <<255>>
       IN  /\ call' = <<"loopback", d>>
           /\ miso' = SubSeq(line, 1, Taken(line))
           /\ mosi' = [j \in 1..Taken(line) |-> 255]
           /\ b1' = 127
           /\ b2' = tpi_receive_byte(line)
  /\ UNCHANGED sketchVars

CallSendSkey ==
  /\ call[1] = "none"
  /\ \E key \in Keys :
       /\ call' = <<"send_skey", key>>
       /\ mosi' = send_skey(key)
  /\ UNCHANGED <<miso, b1, b2>>
  /\ UNCHANGED sketchVars

\* what may follow the first transfer that is not idle: data, noise, idle
NoiseBytes == {0, 165, 255}

\* a loop test that waits for b1 to be all ones
AlignedAllOnes(x) == x = 255

\* line 909: while (0x7f != b1)
Aligned(x) == x = 127

\* tpi_receive_byte() step by step, on whatever the line carries.
\* lines 896-898: a transfer reads 0xff and the do-while goes round again;
\* idle transfers beyond MaxIdle are not counted
ReceiveIdle ==
  /\ call \in {<<"none", 0>>, <<"rx_wait", 0>>}
  /\ call' = <<"rx_wait", 0>>
  /\ b1' = 255
  /\ miso' = IF Len(miso) < MaxIdle THEN Append(miso, 255) ELSE miso
  /\ mosi' = IF Len(mosi) < MaxIdle THEN Append(mosi, 255) ELSE mosi
  /\ UNCHANGED b2
  /\ UNCHANGED sketchVars

\* lines 896-905: a transfer reads something else; b2 is the next transfer,
\* and a third one is made when the low nibble of b1 is all ones
ReceiveStart ==
  /\ call \in {<<"none", 0>>, <<"rx_wait", 0>>}
  /\ \E x \in 0..254, y \in NoiseBytes :
       LET got == IF BitAnd(15, x) = 15 THEN <<x, y, 255>> ELSE <<x, y>>
       IN  /\ b1' = x
           /\ b2' = y
           /\ miso' = miso \o got
           /\ mosi' = mosi \o [j \in 1..Len(got) |-> 255]
  /\ call' = <<"rx_align", 0>>
  /\ UNCHANGED sketchVars

\* lines 909-916: one iteration of the alignment loop; call[2] counts them
AlignStep ==
  /\ call[1] = "rx_align" /\ ~Aligned(b1)
  /\ b2' = BitOr((b2 * 2) % 256, Carry(b1))
  /\ b1' = BitOr((b1 * 2) % 256, 1)
  /\ call' = <<"rx_align", call[2] + 1>>
  /\ UNCHANGED <<mosi, miso>>
  /\ UNCHANGED sketchVars

\* lines 909, 918: b1 is 0x7f; return( b2 )
AlignDone ==
  /\ call[1] = "rx_align" /\ Aligned(b1)
  /\ call' = <<"rx_done", call[2]>>
  /\ UNCHANGED <<mosi, miso, b1, b2>>
  /\ UNCHANGED sketchVars

TpiNext ==
  \/ CallSendByte \/ CallReceiveByte \/ CallLoopback \/ CallSendSkey
  \/ ReceiveIdle \/ ReceiveStart \/ AlignStep \/ AlignDone

TpiSpec == Init /\ [][TpiNext]_vars


(***************************************************************************)
(* Properties of writeProgram().                                           *)
(***************************************************************************)
G == 2 * words

\* the error codes writeProgram reports through ERROR_data
AbortCodes == {TimeOut, HexError, TooLarge, Checksum}

\* the record the sender sent last has been read to its last character
RecordConsumed ==
  txRecs > 0 /\ txField \in {"mark", "end"} /\ rx = <<>> /\ nch = 0 /\ ~stalled

\* C1: every byte of a valid data record that is programmed is programmed at
\* 0x4000 plus its HEX address (also when its group spans two records), and
\* after a group is written and verified adrs has advanced by G.
C1_ByteAtHexAddress ==
  /\ (pc \in {"pollWrite", "verify"} /\ ~txBad) =>
        \A j \in 0..(G - 1) :
           src[j].kind = "data" =>
              (groupAddr + j) % 65536 = (ProgBase + src[j].at) % 65536
  /\ (lastOp = "verify" /\ pc \in {"data", "cks"}) =>
        adrs = (groupAddr + G) % 65536

\* C2: when writeProgram returns success no byte is left in the group buffer:
\* a group that the end-of-file record finds partly filled has been padded,
\* programmed and verified.
C2_EofFlushesPartialGroup ==
  ret = "true" => currentByte = 0

\* C3: a record is accepted if and only if its checksum is right: a record
\* with a right checksum is never rejected with Checksum, and a record of any
\* type whose bytes do not sum to zero is never read through without it.
C3_ChecksumLaw ==
  /\ errData = Checksum => txBad
  /\ (RecordConsumed /\ txBad) => errData = Checksum

\* C4: writeProgram fails with TooLarge exactly when the byte just counted is
\* byte number capacity + 1, never before; that byte sits in the group buffer
\* and no group was programmed after it was read.  A stream of data records
\* of exactly capacity bytes and the end-of-file record is loaded with success
\* (unless a group reads back wrong); one byte more and the load fails with
\* TooLarge when that byte has been read.
C4_CapacityBoundary ==
  /\ (errData = TooLarge) <=> (progSize > Capacity(type))
  /\ progSize <= Capacity(type) + 1
  /\ errData = TooLarge =>
        /\ ret = "false"
        /\ pc \in {"failed", "drain", "finish", "halt"}
        /\ currentByte >= 1
        /\ lastOp \in {"erase_done", "verify", "finish"}
        /\ lastOp = "finish" => prevOp \in {"erase_done", "verify"}
  /\ (type # 0 /\ txField = "end" /\ txBytes = Capacity(type) /\ pc = "halt") =>
        \/ ret = "true" /\ progSize = Capacity(type)
        \/ ret = "false" /\ errData = 0 /\ prevOp = "verify_fail"
  /\ (/\ type # 0 /\ txType = 0 /\ txField \in {"payload", "cks"}
      /\ txBytes + (txLen - txLeft) > Capacity(type)
      /\ rx = <<>> /\ nch = 0 /\ ~stalled) =>
        errData = TooLarge /\ progSize = Capacity(type) + 1

\* the flash was filled to the last byte and the load succeeded
C4_Witness ==
  ret = "true" /\ type # 0 /\ progSize = Capacity(type) /\ pc = "halt"

\* C5: no byte of a record that is neither data nor end-of-file (types 2, 4
\* here) is ever stored in the group buffer.
C5_OnlyDataStored ==
  \A j \in 0..(DataSize - 1) : src[j].kind \notin {"seg", "other"}

\* C6: a record of type 2 with length n is read through its n payload fields
\* and its checksum field, n + 1 fields in all, without any of them being
\* stored in the group buffer, counted or programmed, and the next record is
\* read from its own ':'.
C6_Type2Alignment ==
  /\ (txType = 2 /\ RecordConsumed) =>
        /\ pc = "recWait"
        /\ ret = "none"
        /\ linelength = txLen
        /\ i = txLen + 1
  /\ (txType = 2 /\ txRecs > 0 /\ rxTag.kind = "mark" /\ ret = "none" /\ ~stalled) =>
        /\ rx = <<Colon>> => pc \in {"recWait", "mark2"}
        /\ rx = <<>> => pc = "len" /\ nch = 0
  /\ (txType = 2 /\ rxTag.kind \in {"seg", "cks"} /\ ~stalled) =>
        /\ pc \in {"skip", "recWait"}
        /\ ret = "none"
  /\ \A j \in 0..(DataSize - 1) : src[j].kind # "seg"
  /\ (txType = 2 /\ (txRecs = 0 \/ (txRecs = 1 /\ txField \in {"mark", "len"}))) =>
        progSize = 0 /\ currentByte = 0 /\ mem = Blank

\* a type-2 record with payload was skipped and the record after it, the
\* end-of-file record, was read and accepted
C6_Witness ==
  ret = "true" /\ txRecs = 2 /\ i >= 2 /\ progSize = 0

\* C7: every wait for a character of the stream ends: if the stream stops
\* while writeProgram waits for a character, writeProgram fails with TimeOut.
C7_EveryWaitTimesOut ==
  (stalled /\ rx = <<>> /\ pc \in ReadPoints) ~> (errData = TimeOut)

\* C8: from the step that makes writeProgram fail with TimeOut, HexError,
\* TooLarge or Checksum on, no NVM command is issued and nothing is stored:
\* the flash keeps the groups flushed before and never gets the bytes that
\* are still in the group buffer.
C8_NoNvmAfterAbort ==
  [][(ret' = "false" /\ errData' \in AbortCodes) =>
        /\ mem' = mem
        /\ nvmOps' = nvmOps
        /\ nvmcmd' = nvmcmd
        /\ lastOp' \in {lastOp, "finish"}]_vars

\* a load rejected for its checksum, after a group was flushed and with a byte
\* still in the group buffer
C8_Witness ==
  /\ pc = "halt" /\ ret = "false" /\ errData = Checksum
  /\ Cell(mem, ProgBase) = Pattern(0)
  /\ currentByte > 0 /\ src[0].kind = "data"

\* C9: the read-back starts at the address of the group just programmed and
\* goes up one byte at a time, each byte compared with the group buffer; at
\* the first byte that differs writeProgram fails, programs no other group
\* and leaves the flash as it is.
C9_VerifyEachGroup ==
  /\ pc = "verify" =>
        /\ lastOp = "program_done"
        /\ groupAddr = adrs
        /\ ptr = (groupAddr + c) % 65536
        /\ c < G
        /\ \A j \in 0..(c - 1) : Cell(mem, (groupAddr + j) % 65536) = data[j]
  /\ (lastOp = "verify_fail" \/ prevOp = "verify_fail") =>
        /\ ret = "false" /\ errData = 0
        /\ pc \in {"failed", "drain", "finish", "halt"}
        /\ lastOp = "finish" => pc = "halt"
        /\ b # data[c]
        /\ b = Cell(mem, (groupAddr + c) % 65536)
        /\ \A j \in 0..(c - 1) : Cell(mem, (groupAddr + j) % 65536) = data[j]
        /\ nvmcmd = NVM_NOP
  /\ (ret = "false" /\ errData = 0) =>
        (lastOp = "verify_fail" \/ prevOp = "verify_fail")

\* the second byte of a group read back wrong after the first read back right
C9_Witness ==
  lastOp = "verify_fail" /\ c >= 1 /\ pc = "failed"

\* the order of operations on the link that C10 allows (power-on, 'P', 'E')
SessionOrder ==
  { <<"none", "start_tpi">>, <<"start_tpi", "checkID">>, <<"checkID", "finish">>,
    <<"finish", "key">>, <<"key", "start_tpi">>,
    <<"start_tpi", "erase">>, <<"erase", "erase_done">>,
    <<"erase_done", "program">>, <<"erase_done", "finish">>,
    <<"program", "program_done">>,
    <<"program_done", "verify">>, <<"program_done", "verify_fail">>,
    <<"verify", "program">>, <<"verify", "finish">>,
    <<"verify_fail", "finish">> }

\* C10: a session runs start_tpi, then exactly one chip erase whose busy bit
\* has read clear, then program and verify in turn for each group, then
\* finish; no group is programmed before the erase is complete and the chip
\* is not erased twice.
C10_SessionOrder ==
  /\ ~(IsS \/ IsC) => <<prevOp, lastOp>> \in SessionOrder
  /\ erases <= 1
  /\ lastOp \in {"erase", "erase_done", "program", "program_done",
                 "verify", "verify_fail"} => erases = 1 /\ nvmen
  /\ lastOp \in {"program", "program_done", "verify", "verify_fail"} => IsP
  /\ pc \in ReadPoints \cup {"program", "pollWrite", "verify"} =>
        erases = 1 /\ (busy => pc = "pollWrite")

\* a load that programmed and verified at least two groups and ended in finish
C10_Witness ==
  /\ pc = "halt" /\ IsP /\ ret = "true"
  /\ lastOp = "finish" /\ prevOp = "verify"
  /\ progSize >= 2 * G /\ G > 0

\* C11: when checkID did not recognise the signature (type is still 0), the
\* command 'P' starts no programming session: no chip erase, no NVM command
\* and no store reaches the target.
C11_NoSessionWithoutProfile ==
  (type = 0 /\ idChecked /\ IsP) =>
     /\ erases = 0
     /\ nvmOps = 0
     /\ nvmcmd = NVM_NOP
     /\ lastOp \notin {"erase", "erase_done", "program", "program_done"}

\* C12: after writeProgram returns false, for any of its failures, loop()
\* throws input away only until the 8000 ms have passed: while they have not,
\* time can pass whatever arrives, and once they have the loop is left for
\* finish() whatever is waiting to be read; no command is read before that
\* finish().  After writeProgram returns true finish() runs without any input
\* thrown away.
C12_DrainThenFinish ==
  /\ [](/\ pc \in {"failed", "drain"} => ret = "false" /\ IsP /\ nvmen
        /\ (ret = "false" /\ pc \in {"finish", "halt"}) => expired
        /\ (pc = "halt" /\ IsP) => lastOp = "finish" /\ ~nvmen
        /\ ret = "true" => pc \in {"finish", "halt"}
        /\ (pc = "drain" /\ ~expired) => ENABLED Tick
        /\ (pc = "drain" /\ expired) => ENABLED EndDrain /\ ~ENABLED Drain
        /\ pc = "failed" => ENABLED BeginDrain)
  /\ [][/\ (pc = "drain" /\ pc' # "drain") => expired /\ pc' = "finish"
        /\ pc' = "drain" => pc \in {"failed", "drain"}
        /\ pc \in {"failed", "drain"} =>
              /\ UNCHANGED <<tgtVars, bufVars, outVars, comnd, opVars>>
              /\ rx' \in {rx, <<LineFeed>>} \cup (IF rx = <<>> THEN {} ELSE {Tail(rx)})
        /\ (ret' = "false" /\ ret = "none") => pc' = "failed"]_vars

\* with the sketch running and time passing, the grace period of C12 ends in
\* finish() whatever the sender does
DrainEnds ==
  (pc = "failed") ~> (pc = "halt" /\ lastOp = "finish")

\* a failed load whose grace period ended, and finish() ran, with input still
\* arriving
C12_Witness ==
  pc = "halt" /\ ret = "false" /\ lastOp = "finish" /\ rx = <<LineFeed>> /\ expired

\* C13: at the start of a record at most one character that is not ':' is
\* skipped: with none or one before the ':' the length field is read next;
\* with two, writeProgram fails with HexError when the second is read, the
\* ':' is left unread and no field of the record is parsed; HexError has no
\* other cause.
C13_OneStrayCharacter ==
  /\ (rxTag.kind = "mark" /\ ~stalled /\ rxTag.at <= 1) =>
        /\ ret = "none"
        /\ Len(rx) = rxTag.at + 1 => pc = "recWait"
        /\ (Len(rx) = 1 /\ rxTag.at = 1) => pc = "mark2"
        /\ rx = <<>> => pc = "len" /\ nch = 0
  /\ (rxTag.kind = "mark" /\ ~stalled /\ rxTag.at = 2) =>
        /\ Len(rx) = 3 => pc = "recWait" /\ ret = "none"
        /\ Len(rx) = 2 => pc = "mark2" /\ ret = "none"
        /\ (pc \in ReadPoints /\ ret = "none") => Len(rx) \in {2, 3}
  /\ errData = HexError =>
        /\ rxTag = [kind |-> "mark", at |-> 2]
        /\ ret = "false" /\ pc \notin ReadPoints
        /\ nch = 0
        /\ txField = "len"
        /\ txRecs > 0 => linelength = txLen
  /\ (pc = "failed" /\ errData = HexError /\ ~stalled) => rx = <<Colon>>

\* a record was loaded, then two line-end characters came before the next ':'
C13_Witness ==
  pc = "failed" /\ errData = HexError /\ rx = <<Colon>> /\ txRecs = 1 /\ progSize > 0

\* C14: whenever a load through the pointer (SLDp of the read-back) is about
\* to be issued, the mirror adrs equals the pointer register of the target.
C14_PointerMirror ==
  pc = "verify" => adrs = ptr

\* the devices of C15: signature, flash bytes, words per write
KnownDevices ==
  { <<30, 143, 10, 512, 1>>, <<30, 143, 9, 512, 1>>,
    <<30, 144, 8, 1024, 1>>, <<30, 144, 3, 1024, 1>>,
    <<30, 144, 12, 1024, 1>>, <<30, 144, 11, 1024, 1>>,
    <<30, 145, 15, 2048, 2>>, <<30, 146, 14, 4096, 4>> }

\* C15: checkID reads three bytes from 0x3FC0 with post-increment and gives
\* each of the eight known signatures the profile with its flash size and
\* its words per write; any other signature leaves type as it was.
C15_SignatureTable ==
  /\ [](pc = "checkID" =>
          /\ Len(id) = 3 /\ adrs = SigBase /\ ptr = SigBase + 3
          /\ type = 0)
  /\ [][pc = "checkID" =>
          /\ \A d \in KnownDevices :
                id = <<d[1], d[2], d[3]>> =>
                   Capacity(type') = d[4] /\ WordsOf(type') = d[5]
          /\ (\A d \in KnownDevices : id # <<d[1], d[2], d[3]>>) => type' = type]_vars
  /\ [](Cardinality(KnownDevices) = 8)

\* checkID has just recognised an ATtiny40
C15_Witness ==
  pc = "finish" /\ lastOp = "checkID" /\ type = Tiny40 /\ ptr = SigBase + 3

(***************************************************************************)
(* Properties of the frame codec.                                          *)
(***************************************************************************)
\* the 16 bits of two transfers in the order they are clocked out
WireBits(two) == [n \in 0..15 |-> Bit(two[(n \div 8) + 1], n % 8)]

\* the XOR of the eight data bits
EvenParity(d) ==
  (Bit(d, 0) + Bit(d, 1) + Bit(d, 2) + Bit(d, 3)
   + Bit(d, 4) + Bit(d, 5) + Bit(d, 6) + Bit(d, 7)) % 2

\* C16: for every data byte d, every position p in 0..7 of the start bit inside
\* the first transfer that is not all ones, and any number of all-ones
\* transfers before it, tpi_receive_byte returns d (b1 ends as 0x7f and b2 as
\* d), so the result does not depend on p or on the idle run; it makes one
\* transfer per idle byte, then two, and a third only when the first one holds
\* fewer than four data bits; and decoding the two transfers that
\* tpi_send_byte(d) produces returns d.
C16_ReceiveDecodes ==
  /\ call[1] = "tpi_receive_byte" =>
       LET d == call[2][1]
           p == call[2][2]
           n == call[2][3]
       IN  /\ b2 = d
           /\ b1 = 127
           /\ Len(miso) = n + (IF p >= 4 THEN 3 ELSE 2)
           /\ Len(mosi) = Len(miso)
           /\ \A j \in 1..Len(mosi) : mosi[j] = 255
           /\ \A j \in 1..n : miso[j] = 255
           /\ miso[n + 1] # 255
  /\ call[1] = "loopback" =>
       /\ b2 = call[2]
       /\ SubSeq(miso, 1, 2) = tpi_send_byte(call[2])
       /\ Len(miso) = 2

\* 0xA5 has arrived after two idle transfers, its start bit in the last bit
\* of the third transfer
C16_Witness ==
  call = <<"tpi_receive_byte", <<165, 7, 2>>>> /\ b2 = 165 /\ Len(miso) = 5

\* the two transfers of tpi_send_byte(0xff) have been decoded
C16_LoopbackWitness == call = <<"loopback", 255>> /\ b2 = 255

\* C17: for every byte d, tpi_send_byte makes exactly two 8-bit transfers whose
\* 16 bits in wire order are 1,1 (idle), 0 (start), d0..d4, d5..d7, the parity
\* bit, 1,1 (stop), 1,1 (idle); the parity bit is the XOR of the eight data
\* bits, and nothing else of the parity computation shows in any bit.
C17_SendFrame ==
  call[1] = "tpi_send_byte" =>
    LET d == call[2]
        w == WireBits(mosi)
    IN  /\ Len(mosi) = 2
        /\ \A j \in 1..2 : mosi[j] \in 0..255
        /\ w[0] = 1 /\ w[1] = 1
        /\ w[2] = 0
        /\ \A n \in 0..7 : w[3 + n] = Bit(d, n)
        /\ w[11] = EvenParity(d)
        /\ w[12] = 1 /\ w[13] = 1
        /\ w[14] = 1 /\ w[15] = 1

\* tpi_send_byte has just sent 0x01, whose parity bit is 1 and whose second
\* transfer is 0xf8
C17_Witness == call = <<"tpi_send_byte", 1>> /\ mosi = <<11, 248>>

\* C18: for any 64-bit key, send_skey emits the frame of the key instruction
\* 0xE0 and then exactly 8 frames with the key's bytes from the least to the
\* most significant, also when high-order bytes of the key are zero.
C18_EightKeyFrames ==
  call[1] = "send_skey" =>
    /\ Len(mosi) = 2 * 9
    /\ mosi = Frames(<<SKEY>> \o call[2])

\* what send_skey does: the frames stop after the highest byte that is not zero
C18_StopsAtLastNonZeroByte ==
  call[1] = "send_skey" =>
    LET key == call[2]
        top == IF \A j \in 1..8 : key[j] = 0 THEN 0
               ELSE CHOOSE j \in 1..8 : key[j] # 0 /\ \A h \in (j + 1)..8 : key[h] = 0
    IN  mosi = Frames(<<SKEY>> \o SubSeq(key, 1, top))

\* the key the sketch uses goes out whole
C18_ProgramEnableWhole ==
  call = <<"send_skey", ProgramEnableKey>> =>
    mosi = Frames(<<SKEY, 255, 136, 216, 205, 69, 171, 137, 18>>)

(***************************************************************************)
(* Properties of setConfig().                                              *)
(***************************************************************************)
\* the configuration byte of the target
Config == Cell(mem, CfgAddr)

\* C19: with b the byte setConfig reads at 0x3F40, a section erase that sets
\* every bit and a word write that can only clear bits: after the write of
\* setConfig(true) with c, w or r the configuration byte is b with the selected
\* bit (0x04, 0x02, 0x01) cleared and every other bit as in b; after that of
\* setConfig(false) it is b with the selected bit set and every other bit as in
\* b; with x or an unknown letter it is b.  b is the byte at 0x3F40 when the
\* letter is awaited, b, val and the letter do not change up to the write,
\* nothing changes the byte after the write, and the final dumpConfig reads
\* that byte.
C19_FuseFrame ==
  /\ [](/\ pc = "selWait" => b = Config /\ ptr = CfgAddr /\ adrs = CfgAddr
        /\ pc = "wordWrite" => /\ ptr = CfgAddr
                               /\ Config = IF ~val /\ sel \in {SelC, SelW, SelR}
                                             THEN 255 ELSE b
        /\ pc = "pollConfig" =>
             /\ \A n \in 0..7 :
                  Bit(Config, n) = IF FuseBit(sel) = 2 ^ n
                                     THEN (IF val THEN 0 ELSE 1)
                                     ELSE Bit(b, n)
             /\ sel \notin {SelC, SelW, SelR} => Config = b
             /\ Cell(mem, CfgAddr + 1) = 255
        /\ (pc = "finish" /\ lastOp = "config_done" /\ sel \in {SelC, SelW, SelR}) =>
             b = Config)
  /\ [][/\ pc \in {"selWait", "sectionErase", "pollSection", "wordWrite"} =>
             b' = b /\ val' = val
        /\ pc \in {"sectionErase", "pollSection", "wordWrite", "pollConfig"} => sel' = sel
        /\ pc \in {"pollConfig", "finish", "prompt", "start_tpi", "nvmWait", "setConfig",
                   "selWait"} => mem' = mem]_vars

\* 'C' then 'w' on a target whose clock-output fuse alone is programmed:
\* after 'S' 'c', 'S' 'w', the byte is 0xFB again
C19_Witness ==
  /\ pc = "finish" /\ lastOp = "config_done"
  /\ ~val /\ sel = SelW /\ cmds = 3
  /\ b = 251 /\ Config = 251

\* C20: in the section-erase path of setConfig, after the section-erase
\* command and the two dummy stores, the sketch only reads NVMCSR until the
\* busy bit is clear and writes nothing to NVMCMD while it is set.
C20_NoCommandWhileBusy ==
  [][(pc = "pollSection" /\ busy) => nvmcmd' = nvmcmd]_vars

\* what the section-erase path does keep: setPointer and the word-write
\* command come only after the busy bit has read clear
C20_WriteAfterBusyClear ==
  /\ [](pc = "wordWrite" => ~busy)
  /\ [][(pc = "pollSection" /\ pc' # "pollSection") => ~busy /\ pc' = "wordWrite"]_vars

\* the discipline of eraseChip(), lines 709-711: nothing is written while busy
C20_ChipErasePoll ==
  [][pc = "pollErase" => nvmcmd' = nvmcmd /\ ptr' = ptr /\ mem' = mem]_vars

(***************************************************************************)
(* Properties of the verification report and of the addresses programmed.  *)
(***************************************************************************)
\* lines 633-640: what "program error:" prints: outHex(adrs, 4),
\* outHex(data[c], 2), outHex(b, 2)
Reported == [byte |-> adrs, expected |-> data[c], read |-> b]

\* C21: when the byte at index c of the group programmed at address A reads
\* back different from the buffered byte, the failure reports the address
\* A + c of that byte, the buffered byte data[c] as expected and the byte read
\* back as actual.
C21_ReportsFailingByte ==
  lastOp = "verify_fail" =>
    /\ c \in 0..(2 * words - 1)
    /\ Reported.byte = (groupAddr + c) % 65536
    /\ Reported.expected = data[c]
    /\ Reported.read = Cell(mem, (groupAddr + c) % 65536)
    /\ Reported.read # Reported.expected

\* what the report does hold: the address of the group, whichever byte failed
C21_ReportsGroupAddress ==
  lastOp = "verify_fail" =>
    /\ c \in 0..(2 * words - 1)
    /\ Reported.byte = groupAddr
    /\ Reported.expected = data[c]
    /\ Reported.read = Cell(mem, (groupAddr + c) % 65536)
    /\ Reported.read # Reported.expected
    /\ ptr = (groupAddr + c + 1) % 65536

\* the program memory of the identified device
ProgramMemory == ProgBase..(ProgBase + Capacity(type) - 1)

\* C22: every address at which writeProgram programs a group lies inside the
\* program memory [0x4000, 0x4000 + capacity) of the identified device,
\* whatever the record's offset, also one whose 16-bit sum with 0x4000 wraps;
\* no word write reaches the configuration byte or any other range.
C22_GroupsInsideProgramMemory ==
  pc = "pollWrite" =>
    /\ \A j \in 0..(2 * words - 1) : (groupAddr + j) % 65536 \in ProgramMemory
    /\ IsP => Config = 255

\* what the sketch does: the group goes to the 16-bit sum of the record's
\* offset and 0x4000, plus the groups already programmed from this record
C22_GroupsAtWrappedSum ==
  (pc = "pollWrite" /\ plan = "far") =>
    /\ groupAddr = (txOff + ProgBase) % 65536
    /\ groupAddr \notin ProgramMemory
    /\ progSize <= Capacity(type)

(***************************************************************************)
(* Properties of the group buffer.                                         *)
(***************************************************************************)
\* C23: for every profile value the sketch can hold (0, 1, 2, 4 and 10 for
\* the ATtiny4/5) and every stream, the index currentByte does not exceed
\* 2*words at any write into data[16] and the index written is in 0..15:
\* across record boundaries, the reset on records of offset zero and the
\* padding at the end of the file.
C23_IndexInBuffer ==
  /\ type \in {0, Tiny10, Tiny20, Tiny40, Tiny4_5}
  /\ 2 * words <= DataSize
  /\ currentByte <= (IF type = 0 THEN 1 ELSE 2 * words)
  /\ pc = "data" =>
       /\ currentByte \in 0..(DataSize - 1)
       /\ currentByte <= 2 * words
       /\ type # 0 => currentByte < 2 * words
  /\ pc = "program" => currentByte = 2 * words /\ type # 0
  /\ \A j \in 0..(DataSize - 1) : src[j] # NoTag => j < 2 * words \/ (type = 0 /\ j = 0)

\* the last byte of the second Qword of an ATtiny40 has gone into data[7]
C23_Witness ==
  /\ pc = "program" /\ type = Tiny40
  /\ currentByte = 8 /\ progSize = 16
  /\ src[7] # NoTag

(***************************************************************************)
(* Termination of tpi_receive_byte().                                      *)
(***************************************************************************)
\* C24: tpi_receive_byte returns if and only if some transfer reads a value
\* other than 0xFF.  While every transfer reads 0xFF it stays in the do-while,
\* which has no other exit, and another idle transfer is always possible;
\* once a first value b1 other than 0xFF is read, whichever of the 255 it is,
\* the alignment loop ends with b1 = 0x7f after at most 7 iterations.
C24_ReceiveTerminates ==
  /\ [](/\ call[1] = "rx_wait" =>
             /\ \A j \in 1..Len(miso) : miso[j] = 255
             /\ b1 = 255
             /\ ENABLED ReceiveIdle
             /\ ~ENABLED AlignStep /\ ~ENABLED AlignDone
        /\ call[1] \in {"rx_align", "rx_done"} =>
             /\ call[2] \in 0..7
             /\ \E j \in 1..Len(miso) : miso[j] # 255
        /\ call[1] = "rx_align" =>
             /\ ENABLED AlignStep \/ ENABLED AlignDone
             /\ call[2] = 7 => b1 = 127
        /\ call[1] = "rx_done" => b1 = 127)
  /\ [][/\ call[1] = "rx_wait" =>
             /\ call'[1] \in {"rx_wait", "rx_align"}
             /\ call'[1] = "rx_align" => b1' # 255
        /\ call[1] = "rx_align" =>
             \/ call' = <<"rx_align", call[2] + 1>>
             \/ call' = <<"rx_done", call[2]>> /\ b1 = 127]_vars

\* after one idle transfer the line read 0x00, noise with eight zero bits, and
\* the loop has ended after 7 iterations
C24_Witness ==
  /\ call = <<"rx_done", 7>> /\ b1 = 127
  /\ SubSeq(miso, 1, 2) = <<255, 0>>

=============================================================================
